---- MODULE Spec2Model ----
(***************************************************************************)
(* A model of the deploy pipeline of snapp-cli (src/src/lib/helpers.js):   *)
(* deploy(), chooseSmartContract(), sendGraphQL() and the step() helper,   *)
(* together with config.json on disk, the operator at the prompts and the  *)
(* remote GraphQL endpoint; of the scan of build/ (findSmartContracts,      *)
(* findSmartContractToDeploy); of config() (src/src/lib/config.js); and of *)
(* project() (src/unnamed/part_002).                                       *)
(***************************************************************************)
EXTENDS Naturals, Sequences, FiniteSets, TLC

(***************************************************************************)
(* Bounds of the model.                                                    *)
(***************************************************************************)
MaxDeploys == 2      \* deploy invocations in one behaviour
MaxContracts == 2    \* matches the artifact scan returns at most
MaxTyped == 3        \* characters typed at an input prompt
MaxFiles == 2        \* .js files under build/

(***************************************************************************)
(* JavaScript values.  Every value is a record tagged with its type, so    *)
(* that property access, truthiness and === follow the language.           *)
(***************************************************************************)
Undefined == [t |-> "undefined"]
Null == [t |-> "null"]
Str(s) == [t |-> "string", s |-> s]
Num(n) == [t |-> "number", n |-> n]
Obj(f) == [t |-> "object", f |-> f]
Bool(b) == [t |-> "boolean", b |-> b]
\* A string whose characters the code looks at, as a sequence of characters.
Text(c) == [t |-> "text", c |-> c]
\* An Error instance: it has name and message, and no other own property.
Err(name) == [t |-> "error", name |-> name]

\* ToBoolean(v)
Truthy(v) ==
  CASE v.t = "undefined" -> FALSE
    [] v.t = "null" -> FALSE
    [] v.t = "string" -> v.s # ""
    [] v.t = "text" -> v.c # <<>>
    [] v.t = "number" -> v.n # 0
    [] v.t = "boolean" -> v.b
    [] OTHER -> TRUE

\* v.k throws a TypeError exactly when v is undefined or null.
Nullish(v) == v.t \in {"undefined", "null"}

\* v.k for a v that is not nullish: an absent property reads as undefined.
Prop(v, k) ==
  IF v.t = "object" /\ k \in DOMAIN v.f THEN v.f[k] ELSE Undefined

\* v?.k
OptProp(v, k) == IF Nullish(v) THEN Undefined ELSE Prop(v, k)

\* a === Str(s)
IsStr(v, s) == v.t = "string" /\ v.s = s

(***************************************************************************)
(* Text the code transforms is a sequence of one-character strings.        *)
(***************************************************************************)
lowerOf ==
  [c \in {"A", "B", "C", "D", "E", "F", "G", "H", "I", "J", "K", "L", "M",
          "N", "O", "P", "Q", "R", "S", "T", "U", "V", "W", "X", "Y", "Z"} |->
     CASE c = "A" -> "a" [] c = "B" -> "b" [] c = "C" -> "c" [] c = "D" -> "d"
       [] c = "E" -> "e" [] c = "F" -> "f" [] c = "G" -> "g" [] c = "H" -> "h"
       [] c = "I" -> "i" [] c = "J" -> "j" [] c = "K" -> "k" [] c = "L" -> "l"
       [] c = "M" -> "m" [] c = "N" -> "n" [] c = "O" -> "o" [] c = "P" -> "p"
       [] c = "Q" -> "q" [] c = "R" -> "r" [] c = "S" -> "s" [] c = "T" -> "t"
       [] c = "U" -> "u" [] c = "V" -> "v" [] c = "W" -> "w" [] c = "X" -> "x"
       [] c = "Y" -> "y" [] c = "Z" -> "z"]

\* String.prototype.toLowerCase
toLowerCase(s) ==
  [i \in DOMAIN s |-> IF s[i] \in DOMAIN lowerOf THEN lowerOf[s[i]] ELSE s[i]]

YES == <<"y", "e", "s">>
Y == <<"y">>

(***************************************************************************)
(* config.json.  An alias entry is {url, smartContract}; either property   *)
(* may be missing.                                                         *)
(***************************************************************************)
DV == <<"d", "v">>        \* the alias the operator deploys to
OTHER_ALIAS == <<"o">>    \* a second alias of the same file
AliasArgs == {DV, <<"D", "V">>, <<"D", "v">>, <<"m">>}

ContractNames == {"", "A", "B"}   \* what (\w*) can capture
Urls == {Undefined, Str(""), Str("u")}
ConfiguredContracts == {Undefined, Str(""), Str("A"), Str("Z")}

\* The file `keys/${name}.json`.
KeysFile(name) == [dir |-> "keys", name |-> name, ext |-> "json"]
CUSTOM_KEY == <<"k">>
CONFIG_FEE == <<"0", ".", "0", "5">>

\* An alias as the config command stores it, and the smartContract deploy
\* adds.
EntryAt(url, sc, keyPath) ==
  [url |-> url, smartContract |-> sc, keyPath |-> keyPath,
   fee |-> Text(CONFIG_FEE)]
Entry(url, sc) == EntryAt(url, sc, KeysFile(DV))
OtherEntry == EntryAt(Str("o-url"), Str("Other"), KeysFile(OTHER_ALIAS))
\* An alias whose keyPath is not keys/<alias>.json.
CustomKeyEntry == EntryAt(Str("u"), Str("A"), KeysFile(CUSTOM_KEY))
Entries ==
  {Entry(u, c) : u \in Urls, c \in ConfiguredContracts}
    \cup {CustomKeyEntry}

NoFile == [t |-> "nofile"]         \* readJSONSync throws ENOENT
Corrupt == [t |-> "corrupt"]       \* readJSONSync throws another error
File(nw) == [t |-> "file", networks |-> nw]
\* A config.json that keeps its aliases under `deployAliases`.
AliasesFile(nw) == [t |-> "aliases", deployAliases |-> nw]
NoConfig == [t |-> "unread"]       \* `let config;` before the read

DiskInit ==
  {NoFile, Corrupt, File(<<>>), File(OTHER_ALIAS :> OtherEntry)}
    \cup {File((DV :> e) @@ (OTHER_ALIAS :> OtherEntry)) : e \in Entries}
    \cup {AliasesFile(DV :> Entry(Str("u"), Str("A")))}

\* config.networks[network]?.smartContract
SmartContractOf(cfg, nw) ==
  IF nw \in DOMAIN cfg.networks THEN cfg.networks[nw].smartContract
  ELSE Undefined

\* config.networks[network].url
UrlOf(cfg, nw) == cfg.networks[nw].url

(***************************************************************************)
(* Text typed at the input prompts, and Number(text) being NaN.  The       *)
(* inputs are written over digits, ".", "-", " " and letters; exponents,   *)
(* hexadecimal literals and "Infinity" are not among them.                 *)
(***************************************************************************)
Digits == {"0", "1", "2", "3", "4", "5", "6", "7", "8", "9"}

RECURSIVE trimStart(_)
trimStart(s) == IF s # <<>> /\ Head(s) = " " THEN trimStart(Tail(s)) ELSE s

RECURSIVE trimEnd(_)
trimEnd(s) ==
  IF s # <<>> /\ s[Len(s)] = " " THEN trimEnd(SubSeq(s, 1, Len(s) - 1)) ELSE s

\* String.prototype.trim
trim(s) == trimEnd(trimStart(s))

\* s.replace(/ /, ''): the first space is removed
RECURSIVE replaceSpace(_)
replaceSpace(s) ==
  IF s = <<>> THEN s
  ELSE IF Head(s) = " " THEN Tail(s)
  ELSE <<Head(s)>> \o replaceSpace(Tail(s))

\* StrDecimalLiteral without a sign: digits with at most one "."
IsUnsignedDecimal(s) ==
  /\ \A i \in DOMAIN s : s[i] \in Digits \cup {"."}
  /\ Cardinality({i \in DOMAIN s : s[i] = "."}) <= 1
  /\ \E i \in DOMAIN s : s[i] \in Digits

\* isNaN(val) for a string val: Number(val) is NaN.  Number("") and
\* Number("  ") are 0.
isNaN(val) ==
  LET s == trim(val) IN
    /\ s # <<>>
    /\ ~IsUnsignedDecimal(s)
    /\ ~(Head(s) \in {"-", "+"} /\ IsUnsignedDecimal(Tail(s)))

FeeInputs == {<<>>, <<" ">>, <<"a">>, <<"1", " ">>}
NonceInputs == {<<>>, <<" ">>, <<"x">>, <<"7">>}

\* validate of the fee prompt: TRUE, or the error shown
feeValidate(val) ==
  IF val = <<>> THEN "Fee is required."
  ELSE IF isNaN(val) THEN "Fee must be a number."
  ELSE "ok"

\* validate of the nonce prompt
nonceValidate(val) ==
  IF val = <<>> THEN "Nonce is required."
  ELSE IF isNaN(val) THEN "Nonce must be a number."
  ELSE "ok"

\* result of both prompts
inputResult(val) == replaceSpace(trim(val))

(***************************************************************************)
(* The remote endpoint and sendGraphQL.                                    *)
(***************************************************************************)
TimeoutMs == 20000
TickMs == TimeoutMs \div 2     \* the granularity of the model's clock

Statuses == {200, 500}
ResponseOk(status) == status >= 200 /\ status <= 299
StatusText(status) == IF status = 200 THEN "OK" ELSE "Internal Server Error"

NotJson == [t |-> "notjson"]   \* a body response.json() cannot parse

Zkapp(hash, reason) ==
  Obj([id |-> Str("id"), hash |-> hash, failureReason |-> reason])
SendZkappBody(zkapp) == Obj([data |-> Obj([sendZkapp |-> Obj([zkapp |-> zkapp])])])
AccountBody(account) == Obj([data |-> Obj([account |-> account])])
Account(nonce) == Obj([publicKey |-> Str("pk"), nonce |-> nonce])

HASH == Str("0xabc")
FAILURES == Obj([index |-> Str("0"), failures |-> Str("F")])
ERRORS == Obj([message |-> Str("E")])

\* Bodies the endpoint may answer with, to either request.
Bodies ==
  { NotJson,
    Null,
    Obj(<<>>),
    Obj([errors |-> ERRORS]),
    Obj([errors |-> ERRORS, data |-> Null]),
    AccountBody(Null),
    AccountBody(Account(Str("3"))),
    AccountBody(Account(Str("0"))),
    AccountBody(Account(Num(0))),
    SendZkappBody(Zkapp(HASH, Null)),
    SendZkappBody(Zkapp(HASH, FAILURES)),
    SendZkappBody(Obj([kind |-> Str("error")])),
    SendZkappBody(Null),
    Obj([errors |-> ERRORS, data |-> Obj([sendZkapp |-> Obj([zkapp |-> Zkapp(HASH, Null)])])]) }

\* What the catch block of sendGraphQL returns.
CaughtError(error) == Obj([kind |-> Str("error"), message |-> error])

\* What sendGraphQL returns when !response.ok.
HttpError(status, responseJson) ==
  Obj([kind |-> Str("error"),
       statusCode |-> Num(status),
       statusText |-> Str(StatusText(status)),
       message |-> Prop(responseJson, "errors")])

\* Lines 469-485 of sendGraphQL once the body has arrived: the value it
\* returns, and whether the path taken ran clearTimeout(timer).
sendGraphQLResult(status, body) ==
  IF body = NotJson
    THEN [value |-> CaughtError(Err("FetchError")), cleared |-> TRUE]
  ELSE IF ~ResponseOk(status)
    THEN IF Nullish(body)
           THEN [value |-> CaughtError(Err("TypeError")), cleared |-> TRUE]
           ELSE [value |-> HttpError(status, body), cleared |-> FALSE]
  ELSE [value |-> body, cleared |-> FALSE]

\* The callback of step('Send to network'): the member chain under try,
\* the caught error under catch.
sendToNetwork(r) ==
  IF Nullish(r) \/ Nullish(Prop(r, "data"))
       \/ Nullish(Prop(Prop(r, "data"), "sendZkapp"))
    THEN Err("TypeError")
    ELSE Prop(Prop(Prop(r, "data"), "sendZkapp"), "zkapp")

\* !txn || txn?.kind === 'error'
sendFailed(txn) == ~Truthy(txn) \/ IsStr(OptProp(txn, "kind"), "error")

\* response?.data?.account?.nonce
accountNonce(r) == OptProp(OptProp(OptProp(r, "data"), "account"), "nonce")

(***************************************************************************)
(* The .js files under build/.  A file has a path and a text; the text is  *)
(* the sequence of its class declarations `<kw> <name> extends <base>`.    *)
(***************************************************************************)
Decl(kw, name, base) == [kw |-> kw, name |-> name, base |-> base]
JsFile(dir, base, text) == [dir |-> dir, base |-> base, text |-> text]

\* toLowerCase of the words of a declaration
lowerWord ==
  [w \in {"class", "CLASS", "SmartContract", "smartcontract", "Struct",
          "A", "a", "B", ""} |->
     CASE w = "CLASS" -> "class"
       [] w = "SmartContract" -> "smartcontract"
       [] w = "Struct" -> "struct"
       [] w = "A" -> "a"
       [] w = "B" -> "b"
       [] OTHER -> w]

\* /class (\w*) extends SmartContract/gi matches the declaration
matchesSmartContract(d) ==
  lowerWord[d.kw] = "class" /\ lowerWord[d.base] = "smartcontract"

\* new RegExp(`class ${contractName} extends SmartContract`, 'gi') matches
\* the declaration
matchesContract(d, contractName) ==
  /\ matchesSmartContract(d)
  /\ lowerWord[d.name] = lowerWord[contractName]

\* Array.from(str.matchAll(..)).map((result) => result[1])
RECURSIVE captures(_)
captures(text) ==
  IF text = <<>> THEN <<>>
  ELSE (IF matchesSmartContract(Head(text)) THEN <<Head(text).name>>
        ELSE <<>>) \o captures(Tail(text))

\* A variant that keeps the first occurrence of each name.
RECURSIVE findSmartContractsUnique(_)
findSmartContractsUnique(files) ==
  IF files = <<>> THEN <<>>
  ELSE LET before == findSmartContractsUnique(SubSeq(files, 1, Len(files) - 1))
           new == captures(files[Len(files)].text)
       IN  before \o SelectSeq(new,
             LAMBDA n : \A i \in DOMAIN before : before[i] # n)

\* findSmartContracts(path), lines 401-414: the captures of every file,
\* pushed in the order of the files.
RECURSIVE findSmartContracts(_)
findSmartContracts(files) ==
  IF files = <<>> THEN <<>>
  ELSE captures(Head(files).text) \o findSmartContracts(Tail(files))

\* path.basename(file)
basename(file) == file.base

\* findSmartContractToDeploy(buildPath, contractName), lines 444-453: the
\* base name of the first file with a match, or undefined.
findSmartContractToDeploy(files, contractName) ==
  LET hits == {i \in DOMAIN files :
                 \E k \in DOMAIN files[i].text :
                   matchesContract(files[i].text[k], contractName)}
  IN  IF hits = {} THEN Undefined
      ELSE LET first == CHOOSE i \in hits : \A j \in hits : i <= j
           IN  Str(basename(files[first]))

\* The file import(`${DIR}/build/src/${smartContractFile}`) loads (185),
\* as <<file>>, or <<>> when there is none at that path.
importedFile(files, contractName) ==
  LET smartContractFile == findSmartContractToDeploy(files, contractName)
      at == {i \in DOMAIN files :
               /\ smartContractFile.t = "string"
               /\ files[i].dir = "build/src"
               /\ files[i].base = smartContractFile.s}
  IN  IF at = {} THEN <<>> ELSE <<files[CHOOSE i \in at : TRUE]>>

\* The names a module exports: its classes, whatever they extend.
namedExports(file) == {file.text[k].name : k \in DOMAIN file.text}

\* Lines 177-206 for the files of build/: how the import ends.
importResult(files, contractName) ==
  LET m == importedFile(files, contractName) IN
    IF m = <<>> THEN "import failed"
    ELSE IF contractName \notin namedExports(m[1]) THEN "not a named export"
    ELSE "ok"

\* A variant that prefers the only name of the artifact to the configured
\* one.
chooseArtifactFirst(cfg, smartContracts, nw) ==
  IF Len(smartContracts) = 1 THEN Str(smartContracts[1])
  ELSE IF Truthy(SmartContractOf(cfg, nw)) THEN SmartContractOf(cfg, nw)
  ELSE Str("")

\* A variant that takes the first name when there are several.
chooseFirst(cfg, smartContracts, nw) ==
  IF Truthy(SmartContractOf(cfg, nw)) THEN SmartContractOf(cfg, nw)
  ELSE IF Len(smartContracts) >= 1 THEN Str(smartContracts[1])
  ELSE Str("")

(***************************************************************************)
(* chooseSmartContract(config, deploy, network)                            *)
(***************************************************************************)
chooseSmartContract(cfg, smartContracts, nw) ==
  IF Truthy(SmartContractOf(cfg, nw)) THEN SmartContractOf(cfg, nw)
  ELSE IF Len(smartContracts) = 1 THEN Str(smartContracts[1])
  ELSE Str("")

\* config.networks[network].smartContract = contractName
setSmartContract(cfg, nw, name) ==
  [cfg EXCEPT !.networks[nw].smartContract = name]

\* What findSmartContracts can return: every list of captured names.
Artifacts ==
  UNION {[1..n -> ContractNames] : n \in 0..MaxContracts}

(***************************************************************************)
(* State.                                                                  *)
(***************************************************************************)
VARIABLES
  disk,            \* config.json on disk
  deploys,         \* deploy invocations started so far
  pc,              \* where the running invocation is
  outcome,         \* how the invocation ended: returned, threw, exit0, exit1
  network,         \* deploy's `network`, after toLowerCase
  yes,             \* deploy's `yes`
  config,          \* deploy's `config`
  build,           \* build.smartContracts
  contractName,    \* deploy's `contractName`
  fee,             \* deploy's `fee`
  nonce,           \* deploy's `nonce`
  signedPayment,   \* the fee-payer record signTransaction was given
  confirm,         \* deploy's `confirm`
  txn,             \* deploy's `txn`
  req,             \* the sendGraphQL call in flight
  timers,          \* the setTimeout of each sendGraphQL call
  log,             \* what was printed to the operator
  promptError,     \* the validation error the open prompt shows
  calls,           \* per invocation: prompts shown, requests sent, writes
  hist,            \* what the behaviour has seen, for stating properties
  buildDir,        \* the .js files under build/, in the order glob gives
  keys,            \* the names n of the files keys/<n>.json that exist
  response,        \* the answers the prompts of config() have returned
  dirs,            \* the paths that exist where project() runs, and
                   \* what each holds
  shell,           \* shelljs and child_process as project() uses them:
                   \* whether git is on the PATH, the directory commands
                   \* run in, the commands run so far
  argv             \* project's `{ name, ui }`

vars ==
  <<disk, deploys, pc, outcome, network, yes, config, build, contractName,
    fee, nonce, signedPayment, confirm, txn, req, timers, log, promptError,
    calls, hist, buildDir, keys, response, dirs, shell, argv>>

\* What deploy leaves alone: the state of the scan of build/, of config()
\* and of project().
others == <<buildDir, keys, response, dirs, shell, argv>>

locals == <<contractName, fee, nonce, signedPayment, confirm, txn>>

NoReq == [call |-> "none"]
NoTimers == [nonce |-> "none", submit |-> "none"]
NoCalls ==
  [selectPrompts |-> 0, confirmPrompts |-> 0, noncePrompts |-> 0,
   nonceQueries |-> 0, submissions |-> 0, configWrites |-> 0, builds |-> 0,
   feePrompts |-> 0, keyReads |-> 0, uiPrompts |-> 0]
NoHist ==
  [diskAtStart |-> NoFile,   \* config.json when the invocation started
   gate |-> "Pending",       \* the Confirmation Gate
   answer |-> <<>>,          \* <<a>> once the operator answered a
   selected |-> FALSE,       \* the operator submitted a selection
   submitHttp |-> <<>>,      \* <<[status, body]>>: the HTTP response to
                             \* the submission, if one arrived
   submitResult |-> <<>>,    \* <<r>> once the submission returned r
   single |-> <<>>,          \* <<[name, deploy]>>: that deploy resolved
                             \* the alias to the only name of its artifact
   keyFile |-> <<>>,         \* <<f>> once the key was read from file f
   keysAtStart |-> {},       \* the key files when config() started
   dirsAtStart |-> <<>>,     \* the paths when project() started
   cancelledAt |-> "",       \* the prompt of config() the operator cancelled
   queried |-> <<>>]         \* <<n>> once the account query gave nonce n

\* Nothing scanned, no wizard answer, no project.
NoResponse == [deployAlias |-> Undefined, url |-> Undefined, fee |-> Undefined]
NoShell == [git |-> TRUE, cwd |-> <<>>, cmds |-> <<>>]
NoArgv == [name |-> <<>>, ui |-> Undefined]
NoOthers ==
  /\ buildDir = <<>>
  /\ keys = {}
  /\ response = NoResponse
  /\ dirs = <<>>
  /\ shell = NoShell
  /\ argv = NoArgv

Init ==
  /\ disk \in DiskInit
  /\ deploys = 0
  /\ pc = "idle"
  /\ outcome = "none"
  /\ network = <<>>
  /\ yes = FALSE
  /\ config = NoConfig
  /\ build = <<>>
  /\ contractName = Undefined
  /\ fee = Undefined
  /\ nonce = Num(0)
  /\ signedPayment = Undefined
  /\ confirm = Undefined
  /\ txn = Undefined
  /\ req = NoReq
  /\ timers = NoTimers
  /\ log = {}
  /\ promptError = ""
  /\ calls = NoCalls
  /\ hist = NoHist
  /\ NoOthers

\* The invocation ends: `return`, an uncaught exception, or process.exit.
End(how, msgs) ==
  /\ pc' = "done"
  /\ outcome' = how
  /\ log' = log \cup msgs

\* The exit status of the process for each way deploy ends: process.exit(1)
\* in step (24), an exception that leaves deploy, process.exit() without a
\* code (352), and a plain `return`, after which the process ends normally.
exitStatus(how) ==
  CASE how = "exit1" -> 1
    [] how = "threw" -> 1
    [] how = "exit0" -> 0
    [] how = "returned" -> 0

(***************************************************************************)
(* deploy({ network, yes }), lines 71-102: read config.json, look the      *)
(* alias up.  arg = <<"?">> stands for a call without `network`.           *)
(***************************************************************************)
NoNetworkArg == <<"?">>

\* A variant without the check of `url`.
lookupNoUrlCheck(cfg, nw) ==
  IF ~(nw \in DOMAIN cfg.networks) THEN "Network name not found" ELSE "ok"

\* Lines 92-102: the message printed before returning, or "ok".
lookup(cfg, nw) ==
  IF ~(nw \in DOMAIN cfg.networks) THEN "Network name not found"
  ELSE IF ~Truthy(UrlOf(cfg, nw)) THEN "No url"
  ELSE "ok"

deployStart(arg, y) ==
  /\ pc \in {"idle", "done"}
  /\ deploys < MaxDeploys
  /\ deploys' = deploys + 1
  /\ yes' = y
  /\ build' = <<>>
  /\ contractName' = Undefined
  /\ fee' = Undefined
  /\ nonce' = Num(0)
  /\ signedPayment' = Undefined
  /\ confirm' = Undefined
  /\ txn' = Undefined
  /\ req' = NoReq
  /\ timers' = NoTimers
  /\ promptError' = ""
  /\ calls' = NoCalls
  /\ hist' = [NoHist EXCEPT !.diskAtStart = disk, !.single = hist.single]
  /\ UNCHANGED disk
  /\ IF disk = NoFile
       THEN /\ config' = NoConfig /\ network' = <<>>
            /\ pc' = "done" /\ outcome' = "returned"
            /\ log' = {"config.json not found"}
     ELSE IF disk = Corrupt
       THEN /\ config' = NoConfig /\ network' = <<>>
            /\ pc' = "done" /\ outcome' = "returned"
            /\ log' = {"Unable to read config.json"}
     ELSE IF arg = NoNetworkArg
       THEN \* network.toLowerCase() of undefined
            /\ config' = disk /\ network' = <<>>
            /\ pc' = "done" /\ outcome' = "threw"
            /\ log' = {}
     ELSE IF disk.t = "aliases"
       THEN \* config.networks is undefined: config.networks[network]
            \* throws a TypeError (92)
            /\ config' = disk /\ network' = toLowerCase(arg)
            /\ pc' = "done" /\ outcome' = "threw"
            /\ log' = {}
     ELSE /\ config' = disk
          /\ network' = toLowerCase(arg)
          /\ IF lookup(disk, network') # "ok"
               THEN /\ pc' = "done" /\ outcome' = "returned"
                    /\ log' = {lookup(disk, network')}
               ELSE /\ pc' = "build" /\ outcome' = "none"
                    /\ log' = {}
  /\ UNCHANGED others

(***************************************************************************)
(* step('Build project'), lines 104-107.  A throw inside a step ends the   *)
(* process with exit(1) (step, lines 12-26).                               *)
(***************************************************************************)
stepFails(str) ==
  /\ End("exit1", {str \o " failed"})

buildProject(ok) ==
  /\ pc = "build"
  /\ calls' = [calls EXCEPT !.builds = @ + 1]
  /\ IF ok THEN pc' = "scan" /\ UNCHANGED <<outcome, log>>
     ELSE stepFails("Build project")
  /\ UNCHANGED <<disk, deploys, network, yes, config, build, locals, req,
                 timers, promptError, hist>>
  /\ UNCHANGED others

\* A variant that sets the name in memory and does not write the file.
persistInMemory(name) ==
  IF SmartContractOf(config, network) # name
    THEN /\ config' = setSmartContract(config, network, name)
         /\ UNCHANGED <<disk, calls, log>>
    ELSE UNCHANGED <<config, disk, calls, log>>

(***************************************************************************)
(* Lines 165-175: persist the choice when it differs from the configured   *)
(* one.  Gives the new config, and writes it to disk.                      *)
(***************************************************************************)
persistChoice(name) ==
  IF SmartContractOf(config, network) # name
    THEN /\ config' = setSmartContract(config, network, name)
         /\ disk' = config'
         /\ calls' = [calls EXCEPT !.configWrites = @ + 1]
         /\ log' = log \cup {"config.json was updated"}
    ELSE UNCHANGED <<config, disk, calls, log>>

\* A variant that ends the deploy when the artifact has no name and none
\* is configured.
generateBuildJsonFailFast(smartContracts) ==
  /\ pc = "scan"
  /\ build' = smartContracts
  /\ LET name == chooseSmartContract(config, smartContracts, network) IN
       IF ~Truthy(name) /\ smartContracts = <<>>
         THEN /\ End("returned", {"No smart contracts found"})
              /\ contractName' = name
              /\ UNCHANGED <<config, disk, calls, hist>>
       ELSE IF ~Truthy(name)
         THEN /\ pc' = "select"
              /\ calls' = [calls EXCEPT !.selectPrompts = @ + 1]
              /\ contractName' = name
              /\ UNCHANGED <<config, disk, outcome, log, hist>>
         ELSE /\ pc' = "import"
              /\ contractName' = name
              /\ persistChoice(name)
              /\ hist' = IF ~Truthy(SmartContractOf(config, network))
                           THEN [hist EXCEPT !.single =
                                   <<[name |-> name, deploy |-> deploys]>>]
                           ELSE hist
              /\ UNCHANGED outcome
  /\ UNCHANGED <<deploys, network, yes, fee, nonce, signedPayment,
                 confirm, txn, req, timers, promptError>>
  /\ UNCHANGED others

(***************************************************************************)
(* step('Generate build.json') and lines 122-175: the scan returns         *)
(* smartContracts; chooseSmartContract; either the selection prompt opens  *)
(* or the choice is persisted.                                             *)
(***************************************************************************)
generateBuildJson(smartContracts) ==
  /\ pc = "scan"
  /\ build' = smartContracts
  /\ LET name == chooseSmartContract(config, smartContracts, network) IN
       IF ~Truthy(name)
         THEN /\ pc' = "select"
              /\ calls' = [calls EXCEPT !.selectPrompts = @ + 1]
              /\ contractName' = name
              /\ UNCHANGED <<config, disk, log, hist>>
         ELSE /\ pc' = "import"
              /\ contractName' = name
              /\ persistChoice(name)
              /\ hist' = IF ~Truthy(SmartContractOf(config, network))
                           THEN [hist EXCEPT !.single =
                                   <<[name |-> name, deploy |-> deploys]>>]
                           ELSE hist
  /\ UNCHANGED <<deploys, outcome, network, yes, fee, nonce, signedPayment,
                 confirm, txn, req, timers, promptError>>
  /\ UNCHANGED others

\* The operator picks one of the choices of the selection prompt (148).
selectSubmit(i) ==
  /\ pc = "select"
  /\ i \in DOMAIN build
  /\ contractName' = Str(build[i])
  /\ persistChoice(Str(build[i]))
  /\ pc' = "import"
  /\ hist' = [hist EXCEPT !.selected = TRUE]
  /\ UNCHANGED <<deploys, outcome, network, yes, build, fee, nonce,
                 signedPayment, confirm, txn, req, timers, promptError>>
  /\ UNCHANGED others

\* The operator cancels a prompt: the promise of prompt() rejects and
\* deploy throws.
promptCancel ==
  /\ pc \in {"select", "feePrompt", "noncePrompt", "confirm"}
  /\ End("threw", {})
  /\ UNCHANGED <<disk, deploys, network, yes, config, build, locals, req,
                 timers, promptError, calls, hist>>
  /\ UNCHANGED others

(***************************************************************************)
(* Lines 177-206: find the file of the contract and import it.  `build` is *)
(* not read from here on, and the model forgets it.                        *)
(***************************************************************************)
importContract(result) ==
  /\ pc = "import"
  /\ build' = <<>>
  /\ IF result = "ok" THEN pc' = "readKey" /\ UNCHANGED <<outcome, log>>
     ELSE IF result = "import failed"
       THEN End("returned", {"Failed to find the smart contract"})
     ELSE End("returned", {"Not a named export"})
  /\ UNCHANGED <<disk, deploys, network, yes, config, locals, req,
                 timers, promptError, calls, hist>>
  /\ UNCHANGED others

\* A variant that prints the message and goes on without the key.
readKeyNoReturn(ok) ==
  /\ pc = "readKey"
  /\ calls' = [calls EXCEPT !.keyReads = @ + 1]
  /\ hist' = [hist EXCEPT !.keyFile = <<KeysFile(network)>>]
  /\ pc' = "compile"
  /\ log' = IF ok THEN log
             ELSE log \cup {"Failed to find the zkapp private key"}
  /\ UNCHANGED <<disk, deploys, outcome, network, yes, config, build, locals,
                 req, timers, promptError>>
  /\ UNCHANGED others

\* Lines 208-219: read the private key from `keys/${network}.json`; ok
\* says whether that file could be read.
readKey(ok) ==
  /\ pc = "readKey"
  /\ calls' = [calls EXCEPT !.keyReads = @ + 1]
  /\ hist' = [hist EXCEPT !.keyFile = <<KeysFile(network)>>]
  /\ IF ok THEN pc' = "compile" /\ UNCHANGED <<outcome, log>>
     ELSE End("returned", {"Failed to find the zkapp private key"})
  /\ UNCHANGED <<disk, deploys, network, yes, config, build, locals, req,
                 timers, promptError>>
  /\ UNCHANGED others

\* step('Generate verification key'), lines 232-235.
generateVerificationKey(ok) ==
  /\ pc = "compile"
  /\ IF ok THEN pc' = "buildTx" /\ UNCHANGED <<outcome, log>>
     ELSE stepFails("Generate verification key")
  /\ UNCHANGED <<disk, deploys, network, yes, config, build, locals, req,
                 timers, promptError, calls, hist>>
  /\ UNCHANGED others

\* step('Build transaction'), lines 237-244; the fee prompt opens (247).
buildTransaction(ok) ==
  /\ pc = "buildTx"
  /\ IF ok
       THEN /\ pc' = "feePrompt"
            /\ calls' = [calls EXCEPT !.feePrompts = @ + 1]
            /\ UNCHANGED <<outcome, log>>
       ELSE stepFails("Build transaction") /\ UNCHANGED calls
  /\ UNCHANGED <<disk, deploys, network, yes, config, build, locals, req,
                 timers, promptError, hist>>
  /\ UNCHANGED others

(***************************************************************************)
(* sendGraphQL, lines 455-468: arm the timer and start the fetch.          *)
(***************************************************************************)
sendGraphQLStart(call) ==
  /\ req' = [call |-> call, phase |-> "fetch", elapsed |-> 0, status |-> 0]
  /\ timers' = [timers EXCEPT ![call] = "pending"]

\* A variant that signs without asking the network for the nonce.
feeSubmitNoQuery(val) ==
  /\ pc = "feePrompt"
  /\ IF feeValidate(val) # "ok"
       THEN /\ promptError' = feeValidate(val)
            /\ UNCHANGED <<pc, outcome, log, fee>>
     ELSE /\ promptError' = ""
          /\ fee' = Text(inputResult(val))
          /\ IF ~Truthy(fee') THEN End("returned", {})
             ELSE pc' = "sign" /\ UNCHANGED <<outcome, log>>
  /\ UNCHANGED <<disk, deploys, network, yes, config, build, contractName,
                 nonce, signedPayment, confirm, txn, hist, req, timers, calls>>
  /\ UNCHANGED others

(***************************************************************************)
(* The fee prompt, lines 247-271.  A rejected input leaves the prompt      *)
(* open with the error; an accepted one is trimmed; an empty fee returns;  *)
(* otherwise the account query is sent.                                    *)
(***************************************************************************)
feeSubmit(val) ==
  /\ pc = "feePrompt"
  /\ IF feeValidate(val) # "ok"
       THEN /\ promptError' = feeValidate(val)
            /\ UNCHANGED <<pc, outcome, log, fee, req, timers, calls>>
     ELSE /\ promptError' = ""
          /\ fee' = Text(inputResult(val))
          /\ IF ~Truthy(fee')
               THEN End("returned", {}) /\ UNCHANGED <<req, timers, calls>>
               ELSE /\ pc' = "nonceQuery"
                    /\ sendGraphQLStart("nonce")
                    /\ calls' = [calls EXCEPT !.nonceQueries = @ + 1]
                    /\ UNCHANGED <<outcome, log>>
  /\ UNCHANGED <<disk, deploys, network, yes, config, build, contractName,
                 nonce, signedPayment, confirm, txn, hist>>
  /\ UNCHANGED others

(***************************************************************************)
(* Lines 273-291: use the nonce of the answer, or open the nonce prompt.   *)
(***************************************************************************)
afterAccountQuery(r) ==
  /\ IF Truthy(accountNonce(r))
       THEN /\ nonce' = accountNonce(r)
            /\ pc' = "sign"
            /\ UNCHANGED calls
       ELSE /\ pc' = "noncePrompt"
            /\ calls' = [calls EXCEPT !.noncePrompts = @ + 1]
            /\ UNCHANGED nonce
  /\ hist' = IF Nullish(accountNonce(r)) THEN hist
             ELSE [hist EXCEPT !.queried = <<accountNonce(r)>>]
  /\ UNCHANGED <<outcome, log, txn>>

\* A variant that goes back to signing and sending when the submission
\* failed.
afterSendZkappRetry(r, http) ==
  /\ txn' = sendToNetwork(r)
  /\ hist' = [hist EXCEPT !.submitResult = <<r>>, !.submitHttp = http]
  /\ IF sendFailed(txn')
       THEN pc' = "sign" /\ UNCHANGED <<outcome, log>>
       ELSE End("returned", {"Success! Deploy transaction sent."})
  /\ UNCHANGED <<nonce, calls>>

(***************************************************************************)
(* Lines 365-393: the callback of step('Send to network') gives txn; the   *)
(* failure message, or the success message and shutdown.                   *)
(***************************************************************************)
afterSendZkapp(r, http) ==
  /\ txn' = sendToNetwork(r)
  /\ hist' = [hist EXCEPT !.submitResult = <<r>>, !.submitHttp = http]
  /\ IF sendFailed(txn')
       THEN End("returned", {"Failed to send transaction"})
       ELSE End("returned", {"Success! Deploy transaction sent."})
  /\ UNCHANGED <<nonce, calls>>

\* sendGraphQL returns r to its caller; http is the response it read, if
\* one arrived.
sendGraphQLReturn(r, http) ==
  /\ IF req.call = "nonce" THEN afterAccountQuery(r)
     ELSE afterSendZkapp(r, http)
  /\ req' = NoReq

InFlight == req.call # "none"

\* Time passes while the request is in flight.
tick ==
  /\ InFlight
  /\ req.elapsed < TimeoutMs
  /\ req' = [req EXCEPT !.elapsed = @ + TickMs]
  /\ UNCHANGED <<disk, deploys, pc, outcome, network, yes, config, build,
                 locals, timers, log, promptError, calls, hist>>
  /\ UNCHANGED others

\* The timer callback (457-459): controller.abort().
timerFires ==
  /\ InFlight
  /\ timers[req.call] = "pending"
  /\ req.elapsed >= TimeoutMs
  /\ timers' = [timers EXCEPT ![req.call] = "fired"]
  /\ UNCHANGED <<disk, deploys, pc, outcome, network, yes, config, build,
                 locals, req, log, promptError, calls, hist>>
  /\ UNCHANGED others

\* The aborted fetch (or body read) rejects; catch, lines 479-485.
abortRejects ==
  /\ InFlight
  /\ timers[req.call] = "fired"
  /\ sendGraphQLReturn(CaughtError(Err("AbortError")), <<>>)
  /\ UNCHANGED <<disk, deploys, network, yes, config, build, contractName,
                 fee, signedPayment, confirm, timers, promptError>>
  /\ UNCHANGED others

\* A transport failure (DNS, refused, reset) rejects the fetch or the body
\* read; catch, lines 479-485, clears the timer.
fetchRejects ==
  /\ InFlight
  /\ timers[req.call] = "pending"
  /\ req.elapsed < TimeoutMs
  /\ sendGraphQLReturn(CaughtError(Err("FetchError")), <<>>)
  /\ timers' = [timers EXCEPT ![req.call] = "cleared"]
  /\ UNCHANGED <<disk, deploys, network, yes, config, build, contractName,
                 fee, signedPayment, confirm, promptError>>
  /\ UNCHANGED others

\* The endpoint answers in time: fetch resolves with the status line (463).
fetchResolves(status) ==
  /\ InFlight
  /\ req.phase = "fetch"
  /\ timers[req.call] = "pending"
  /\ req.elapsed < TimeoutMs
  /\ req' = [req EXCEPT !.phase = "json", !.status = status]
  /\ UNCHANGED <<disk, deploys, pc, outcome, network, yes, config, build,
                 locals, timers, log, promptError, calls, hist>>
  /\ UNCHANGED others

\* The body arrives in time: lines 469-485.
bodyArrives(body) ==
  /\ InFlight
  /\ req.phase = "json"
  /\ timers[req.call] = "pending"
  /\ req.elapsed < TimeoutMs
  /\ LET res == sendGraphQLResult(req.status, body) IN
       /\ sendGraphQLReturn(res.value,
                            <<[status |-> req.status, body |-> body]>>)
       /\ timers' = IF res.cleared
                      THEN [timers EXCEPT ![req.call] = "cleared"]
                      ELSE timers
  /\ UNCHANGED <<disk, deploys, network, yes, config, build, contractName,
                 fee, signedPayment, confirm, promptError>>
  /\ UNCHANGED others

\* A timer left pending by a call that returned fires later, while the
\* process is alive.
lateTimerFires(call) ==
  /\ timers[call] = "pending"
  /\ req.call # call
  /\ outcome \notin {"exit0", "exit1"}
  /\ timers' = [timers EXCEPT ![call] = "fired"]
  /\ UNCHANGED <<disk, deploys, pc, outcome, network, yes, config, build,
                 locals, req, log, promptError, calls, hist>>
  /\ UNCHANGED others

(***************************************************************************)
(* The nonce prompt, lines 276-291.                                        *)
(***************************************************************************)
nonceSubmit(val) ==
  /\ pc = "noncePrompt"
  /\ IF nonceValidate(val) # "ok"
       THEN /\ promptError' = nonceValidate(val)
            /\ UNCHANGED <<pc, nonce>>
       ELSE /\ promptError' = ""
            /\ nonce' = Text(inputResult(val))
            /\ pc' = "sign"
  /\ UNCHANGED <<disk, deploys, outcome, network, yes, config, build,
                 contractName, fee, signedPayment, confirm, txn, req, timers,
                 log, calls, hist>>
  /\ UNCHANGED others

(***************************************************************************)
(* The Confirmation Gate, lines 311-366.                                   *)
(***************************************************************************)
NINE_ZEROS == <<"0", "0", "0", "0", "0", "0", "0", "0", "0">>

\* A variant that scales by arithmetic: the decimal point moves nine
\* places to the right.
feeTimesBillion(f) ==
  IF \E i \in DOMAIN f : f[i] = "."
    THEN LET i == CHOOSE j \in DOMAIN f : f[j] = "."
             frac == SubSeq(f, i + 1, Len(f))
         IN  SubSeq(f, 1, i - 1) \o frac
               \o SubSeq(NINE_ZEROS, 1, 9 - Len(frac))
    ELSE f \o NINE_ZEROS

\* `${fee}000000000` (line 296)
feeNanomina(f) == f \o NINE_ZEROS

\* A variant that accepts every answer beginning with "y".
affirmativePrefix(x) == x # <<>> /\ x[1] = "y"

\* x === 'yes' || x === 'y' (lines 350 and 362)
affirmative(x) == x = YES \/ x = Y

\* A variant that ignores the flag.
skipPromptNever(y) == FALSE

\* if (yes), line 312: run without the confirmation prompt
skipPrompt(y) == y

\* Lines 362-366: the fail safe, then step('Send to network') sends the
\* mutation.
gateThenSend(c) ==
  IF affirmative(c.c)
    THEN /\ pc' = "sending"
         /\ sendGraphQLStart("submit")
         /\ calls' = [calls EXCEPT !.submissions = @ + 1]
         /\ UNCHANGED <<outcome, log>>
    ELSE /\ End("returned", {})
         /\ UNCHANGED <<req, timers, calls>>

\* step('Sign transaction'), lines 292-303, and lines 305-317: with `yes`
\* the answer is 'yes', otherwise the confirmation prompt opens.
signTransaction(ok) ==
  /\ pc = "sign"
  /\ IF ~ok
       THEN /\ stepFails("Sign transaction")
            /\ UNCHANGED <<signedPayment, confirm, req, timers, calls, hist>>
     ELSE /\ signedPayment' = [nonce |-> nonce, fee |-> feeNanomina(fee.c)]
          /\ IF skipPrompt(yes)
               THEN /\ confirm' = Text(YES)
                    /\ gateThenSend(confirm')
                    /\ hist' = [hist EXCEPT !.gate =
                                  IF affirmative(YES) THEN "Confirmed"
                                  ELSE "Aborted"]
               ELSE /\ pc' = "confirm"
                    /\ calls' = [calls EXCEPT !.confirmPrompts = @ + 1]
                    /\ UNCHANGED <<confirm, outcome, log, req, timers, hist>>
  /\ UNCHANGED <<disk, deploys, network, yes, config, build, contractName,
                 fee, nonce, txn, promptError>>
  /\ UNCHANGED others

\* The operator answers the confirmation prompt: result (346-355), then
\* lines 358-366.
confirmSubmit(answer) ==
  /\ pc = "confirm"
  /\ LET val == toLowerCase(answer) IN
       IF ~affirmative(val)
         THEN \* log('Aborted...'); process.exit()
              /\ End("exit0", {"Aborted. Transaction not sent."})
              /\ hist' = [hist EXCEPT !.answer = <<answer>>,
                                      !.gate = "Aborted"]
              /\ UNCHANGED <<confirm, req, timers, calls>>
         ELSE /\ confirm' = Text(val)
              /\ gateThenSend(confirm')
              /\ hist' = [hist EXCEPT !.answer = <<answer>>,
                                      !.gate = IF affirmative(val)
                                                 THEN "Confirmed"
                                                 ELSE "Aborted"]
  /\ UNCHANGED <<disk, deploys, network, yes, config, build, contractName,
                 fee, nonce, signedPayment, txn, promptError>>
  /\ UNCHANGED others

ConfirmAnswers ==
  { <<>>, Y, YES, <<"Y", "E", "S">>, <<"n", "o">>, <<"y", "e">>,
    <<" ", "y">>, <<"y", "e", "s", "s">> }

ImportResults == {"ok", "import failed", "not a named export"}

(***************************************************************************)
(* The specification.                                                      *)
(***************************************************************************)
Next ==
  \/ \E arg \in AliasArgs \cup {NoNetworkArg}, y \in BOOLEAN :
       deployStart(arg, y)
  \/ \E ok \in BOOLEAN : buildProject(ok)
  \/ \E a \in Artifacts : generateBuildJson(a)
  \/ \E i \in 1..MaxContracts : selectSubmit(i)
  \/ promptCancel
  \/ \E r \in ImportResults : importContract(r)
  \/ \E ok \in BOOLEAN : readKey(ok)
  \/ \E ok \in BOOLEAN : generateVerificationKey(ok)
  \/ \E ok \in BOOLEAN : buildTransaction(ok)
  \/ \E val \in FeeInputs : feeSubmit(val)
  \/ \E val \in NonceInputs : nonceSubmit(val)
  \/ \E ok \in BOOLEAN : signTransaction(ok)
  \/ \E a \in ConfirmAnswers : confirmSubmit(a)
  \/ tick
  \/ timerFires
  \/ abortRejects
  \/ fetchRejects
  \/ \E st \in Statuses : fetchResolves(st)
  \/ \E b \in Bodies : bodyArrives(b)
  \/ \E c \in {"nonce", "submit"} : lateTimerFires(c)

Spec == Init /\ [][Next]_vars

(***************************************************************************)
(* The prompts and the signing on their own: deploy stands at the fee      *)
(* prompt of an alias whose earlier steps went well, and the operator      *)
(* types any text of up to MaxTyped characters.                            *)
(***************************************************************************)
TypedChars == {"0", "1", ".", "-", " ", "a"}
TypedInputs ==
  UNION {[1..n -> TypedChars] : n \in 0..MaxTyped}
    \cup {<<"0", ".", "0", "1">>,
          <<"0", ".", "0", "0", "0", "0", "0", "0", "0", "0", "1">>}

AtFeePrompt ==
  /\ disk = File((DV :> Entry(Str("u"), Str("A")))
                   @@ (OTHER_ALIAS :> OtherEntry))
  /\ config = disk
  /\ deploys = 1
  /\ pc = "feePrompt"
  /\ outcome = "none"
  /\ network = DV
  /\ yes = FALSE
  /\ build = <<>>
  /\ contractName = Str("A")
  /\ fee = Undefined
  /\ nonce = Num(0)
  /\ signedPayment = Undefined
  /\ confirm = Undefined
  /\ txn = Undefined
  /\ req = NoReq
  /\ timers = NoTimers
  /\ log = {}
  /\ promptError = ""
  /\ calls = [NoCalls EXCEPT !.builds = 1, !.keyReads = 1, !.feePrompts = 1]
  /\ hist = [NoHist EXCEPT !.diskAtStart = disk,
                           !.keyFile = <<KeysFile(DV)>>]
  /\ NoOthers

PromptNext ==
  \/ \E val \in TypedInputs : feeSubmit(val)
  \/ \E val \in TypedInputs : nonceSubmit(val)
  \/ promptCancel
  \/ fetchRejects
  \/ \E st \in Statuses : fetchResolves(st)
  \/ \E b \in {Null, AccountBody(Account(Str("3"))),
               AccountBody(Account(Num(0)))} : bodyArrives(b)
  \/ \E ok \in BOOLEAN : signTransaction(ok)

PromptSpec == AtFeePrompt /\ [][PromptNext]_vars

\* The pipeline reaches the fee prompt in the state PromptSpec starts in.
NotAtFeePrompt == ~AtFeePrompt

(***************************************************************************)
(* The scan of build/ and the import on their own: deploy stands before    *)
(* step('Generate build.json') with up to MaxFiles files under build/.     *)
(***************************************************************************)
DeclA == Decl("class", "A", "SmartContract")
DeclLowerA == Decl("class", "a", "SmartContract")
DeclB == Decl("class", "B", "SmartContract")
DeclUpperB == Decl("CLASS", "B", "smartcontract")
DeclStructA == Decl("class", "A", "Struct")

Texts ==
  { <<>>, <<DeclA>>, <<DeclLowerA>>, <<DeclB>>, <<DeclUpperB>>,
    <<DeclStructA>>, <<DeclA, DeclB>>, <<DeclB, DeclA>>,
    <<DeclStructA, DeclB>> }

Paths ==
  { <<"build/src", "x.js">>, <<"build/src", "y.js">>,
    <<"build/src/sub", "x.js">>, <<"build", "x.js">> }

JsFiles == {JsFile(p[1], p[2], t) : p \in Paths, t \in Texts}

\* Lists of files with different paths.
BuildDirs ==
  {fs \in UNION {[1..n -> JsFiles] : n \in 0..MaxFiles} :
     \A i, j \in DOMAIN fs :
       i # j => <<fs[i].dir, fs[i].base>> # <<fs[j].dir, fs[j].base>>}

BeforeScan ==
  /\ disk \in {File((DV :> Entry(Str("u"), sc))
                       @@ (OTHER_ALIAS :> OtherEntry)) :
                  sc \in {Undefined, Str("A")}}
  /\ config = disk
  /\ deploys = 1
  /\ pc = "scan"
  /\ outcome = "none"
  /\ network = DV
  /\ yes = FALSE
  /\ build = <<>>
  /\ contractName = Undefined
  /\ fee = Undefined
  /\ nonce = Num(0)
  /\ signedPayment = Undefined
  /\ confirm = Undefined
  /\ txn = Undefined
  /\ req = NoReq
  /\ timers = NoTimers
  /\ log = {}
  /\ promptError = ""
  /\ calls = [NoCalls EXCEPT !.builds = 1]
  /\ hist = [NoHist EXCEPT !.diskAtStart = disk]
  /\ buildDir \in BuildDirs
  /\ keys = {}
  /\ response = NoResponse
  /\ dirs = <<>>
  /\ shell = NoShell
  /\ argv = NoArgv

ScanNext ==
  \/ generateBuildJson(findSmartContracts(buildDir))
  \/ \E i \in DOMAIN build : selectSubmit(i)
  \/ promptCancel
  \/ importContract(importResult(buildDir, contractName.s))

ScanSpec == BeforeScan /\ [][ScanNext]_vars

(***************************************************************************)
(* config(), config.js 16-183: the wizard that adds a deploy alias.        *)
(***************************************************************************)
\* s.replace(' ', '-'): the first space becomes a dash
RECURSIVE replaceSpaceWithDash(_)
replaceSpaceWithDash(s) ==
  IF s = <<>> THEN s
  ELSE IF Head(s) = " " THEN <<"-">> \o Tail(s)
  ELSE <<Head(s)>> \o replaceSpaceWithDash(Tail(s))

\* val.toLowerCase().trim().replace(' ', '-') (104 and 111)
normalizeName(val) == replaceSpaceWithDash(trim(toLowerCase(val)))

\* config[deployAliasesConfigName] (36-38)
aliasesOf(cfg) == IF cfg.t = "file" THEN cfg.networks ELSE cfg.deployAliases

\* A variant that does not look at the names config.json holds.
nameValidateAny(cfg, val) ==
  IF normalizeName(val) = <<>> THEN "Name is required." ELSE "ok"

\* validate of the name prompt (103-110)
nameValidate(cfg, val) ==
  IF normalizeName(val) = <<>> THEN "Name is required."
  ELSE IF normalizeName(val) \in DOMAIN aliasesOf(cfg)
    THEN "Name already exists."
  ELSE "ok"

\* validate of the url prompt (121-124)
urlValidate(val) == IF val = <<>> THEN "Url is required." ELSE "ok"

\* val < 0 for a string val that is a number
isNegative(val) ==
  LET s == trim(val) IN
    /\ s # <<>>
    /\ Head(s) = "-"
    /\ IsUnsignedDecimal(Tail(s))
    /\ \E i \in DOMAIN s : s[i] \in Digits \ {"0"}

\* validate of the fee prompt of the wizard (135-140)
configFeeValidate(val) ==
  IF val = <<>> THEN "Fee is required."
  ELSE IF isNaN(val) THEN "Fee must be a number."
  ELSE IF isNegative(val) THEN "Fee can't be negative."
  ELSE "ok"

\* new URL(graphQLUrl) does not throw (186): the text has a scheme
isUrl(c) == Len(c) >= 2 /\ c[1] # ":" /\ \E i \in DOMAIN c : c[i] = ":"

\* The entry config() writes for an alias (162-166).
NewEntry(name, url, f) ==
  [url |-> url, smartContract |-> Undefined, keyPath |-> KeysFile(name),
   fee |-> f]

\* config[deployAliasesConfigName][deployAlias] = entry
setAlias(cfg, name, entry) ==
  IF cfg.t = "file"
    THEN [cfg EXCEPT !.networks = (name :> entry) @@ cfg.networks]
    ELSE [cfg EXCEPT !.deployAliases = (name :> entry) @@ cfg.deployAliases]

\* What config() leaves alone.
wizardFrame ==
  <<deploys, network, yes, build, contractName, fee, nonce, signedPayment,
    confirm, txn, req, timers, calls, buildDir, dirs, shell, argv>>

\* Lines 16-76: read config.json, print the table, open the name prompt.
configStart ==
  /\ pc = "idle"
  /\ hist' = [hist EXCEPT !.diskAtStart = disk, !.keysAtStart = keys]
  /\ IF disk = NoFile
       THEN End("returned", {"config.json not found"}) /\ UNCHANGED config
     ELSE IF disk = Corrupt
       THEN End("returned", {"Unable to read config.json"})
            /\ UNCHANGED config
     ELSE /\ config' = disk
          /\ pc' = "askName"
          /\ log' = log \cup {"Add a new deployAlias:"}
          /\ UNCHANGED outcome
  /\ UNCHANGED <<disk, keys, response, promptError>>
  /\ UNCHANGED wizardFrame

\* The operator submits a name (95-112).
nameSubmit(val) ==
  /\ pc = "askName"
  /\ IF nameValidate(config, val) # "ok"
       THEN /\ promptError' = nameValidate(config, val)
            /\ UNCHANGED <<pc, response>>
       ELSE /\ promptError' = ""
            /\ response' = [response EXCEPT
                              !.deployAlias = Text(normalizeName(val))]
            /\ pc' = "askUrl"
  /\ UNCHANGED <<disk, config, keys, outcome, log, hist>>
  /\ UNCHANGED wizardFrame

\* The operator submits a url (113-126).
urlSubmit(val) ==
  /\ pc = "askUrl"
  /\ IF urlValidate(val) # "ok"
       THEN /\ promptError' = urlValidate(val)
            /\ UNCHANGED <<pc, response>>
       ELSE /\ promptError' = ""
            /\ response' = [response EXCEPT !.url = Text(inputResult(val))]
            /\ pc' = "askFee"
  /\ UNCHANGED <<disk, config, keys, outcome, log, hist>>
  /\ UNCHANGED wizardFrame

\* The operator submits a fee (127-142); then line 147.
configFeeSubmit(val) ==
  /\ pc = "askFee"
  /\ IF configFeeValidate(val) # "ok"
       THEN /\ promptError' = configFeeValidate(val)
            /\ UNCHANGED <<pc, response, outcome, log>>
       ELSE /\ promptError' = ""
            /\ response' = [response EXCEPT !.fee = Text(inputResult(val))]
            /\ IF \/ ~Truthy(response'.deployAlias)
                  \/ ~Truthy(response'.url)
                  \/ ~Truthy(response'.fee)
                 THEN End("returned", {})
                 ELSE pc' = "createKey" /\ UNCHANGED <<outcome, log>>
  /\ UNCHANGED <<disk, config, keys, hist>>
  /\ UNCHANGED wizardFrame

\* A variant in which a cancelled prompt gives an empty response, and
\* line 147 returns.
wizardCancelReturns ==
  /\ pc \in {"askName", "askUrl", "askFee"}
  /\ End("returned", {})
  /\ hist' = [hist EXCEPT !.cancelledAt = pc]
  /\ UNCHANGED <<disk, config, keys, response, promptError>>
  /\ UNCHANGED wizardFrame

\* The operator cancels a prompt of the wizard: prompt() rejects and
\* config() throws (94).
wizardCancel ==
  /\ pc \in {"askName", "askUrl", "askFee"}
  /\ End("threw", {})
  /\ hist' = [hist EXCEPT !.cancelledAt = pc]
  /\ UNCHANGED <<disk, config, keys, response, promptError>>
  /\ UNCHANGED wizardFrame

\* step(`Create key pair at keys/${deployAlias}.json`), 149-159.
createKeyPair(ok) ==
  /\ pc = "createKey"
  /\ IF ok
       THEN /\ keys' = keys \cup {response.deployAlias.c}
            /\ pc' = "addAlias"
            /\ UNCHANGED <<outcome, log>>
       ELSE stepFails("Create key pair") /\ UNCHANGED keys
  /\ UNCHANGED <<disk, config, response, promptError, hist>>
  /\ UNCHANGED wizardFrame

\* step(`Add deployAlias to config.json`), 161-168, and lines 170-182:
\* getExplorerName parses the url, then the success message.
addDeployAlias(ok) ==
  /\ pc = "addAlias"
  /\ config' = setAlias(config, response.deployAlias.c,
                        NewEntry(response.deployAlias.c, response.url,
                                 response.fee))
  /\ IF ~ok
       THEN stepFails("Add deployAlias to config.json") /\ UNCHANGED disk
     ELSE /\ disk' = config'
          /\ IF isUrl(response.url.c)
               THEN End("returned", {"Success!"})
               ELSE End("threw", {})
  /\ UNCHANGED <<keys, response, promptError, hist>>
  /\ UNCHANGED wizardFrame

NameInputs ==
  { <<>>, <<" ">>, <<"d", "v">>, <<" ", "D", "V", " ">>, <<"n">>,
    <<"N", " ">>, <<"a", " ", "b">> }
UrlInputs ==
  { <<>>, <<" ">>, <<"h", ":", "x">>, <<" ", "h", ":", "x", " ">>, <<"x">> }
ConfigFeeInputs ==
  { <<>>, <<" ">>, <<"a">>, <<"-", "1">>, <<" ", "-", "1", " ">>, <<"1">>,
    <<" ", "0", ".", "0", "1", " ">>, <<"-", "0">> }

\* config.json and the key files before config() runs.
WizardDisks ==
  { NoFile, Corrupt, File(<<>>), AliasesFile(<<>>),
    File((DV :> Entry(Str("u"), Str("A"))) @@ (OTHER_ALIAS :> OtherEntry)),
    AliasesFile(DV :> Entry(Str("u"), Undefined)) }

WizardInit ==
  /\ disk \in WizardDisks
  /\ keys = IF disk.t \in {"file", "aliases"} THEN DOMAIN aliasesOf(disk)
            ELSE {}
  /\ deploys = 0
  /\ pc = "idle"
  /\ outcome = "none"
  /\ network = <<>>
  /\ yes = FALSE
  /\ config = NoConfig
  /\ build = <<>>
  /\ contractName = Undefined
  /\ fee = Undefined
  /\ nonce = Num(0)
  /\ signedPayment = Undefined
  /\ confirm = Undefined
  /\ txn = Undefined
  /\ req = NoReq
  /\ timers = NoTimers
  /\ log = {}
  /\ promptError = ""
  /\ calls = NoCalls
  /\ hist = NoHist
  /\ buildDir = <<>>
  /\ response = NoResponse
  /\ dirs = <<>>
  /\ shell = NoShell
  /\ argv = NoArgv

WizardNext ==
  \/ configStart
  \/ \E val \in NameInputs : nameSubmit(val)
  \/ \E val \in UrlInputs : urlSubmit(val)
  \/ \E val \in ConfigFeeInputs : configFeeSubmit(val)
  \/ wizardCancel
  \/ \E ok \in BOOLEAN : createKeyPair(ok)
  \/ \E ok \in BOOLEAN : addDeployAlias(ok)

WizardSpec == WizardInit /\ [][WizardNext]_vars

(***************************************************************************)
(* project({ name, ui }) (src/unnamed/part_002, lines 29-177) with its     *)
(* helpers fetchProjectTemplate (183-221) and step (229-238).  A path is   *)
(* the sequence of its segments, relative to the directory the command is  *)
(* run in; `dirs` maps every existing path to "dir", to "file" (a file     *)
(* that was there before the command) or to "new" (a file project() wrote).*)
(***************************************************************************)
Prefixes(p) == {SubSeq(p, 1, i) : i \in 1..Len(p)}

\* fs.existsSync(p)
existsSync(fs, p) == p \in DOMAIN fs

\* sh.mkdir('-p', p): every missing directory on the way to p is created,
\* up to the first segment that is a file; shelljs reports the error and
\* does not throw.
blocked(fs, p) == \E q \in Prefixes(p) : q \in DOMAIN fs /\ fs[q] # "dir"
mkdirP(fs, p) ==
  [q \in {r \in Prefixes(p) : ~blocked(fs, r)} |-> "dir"] @@ fs

\* sh.cd(p) from cwd: the directory changes only when p is a directory.
cd(fs, cwd, p) ==
  IF (cwd \o p) \in DOMAIN fs /\ fs[cwd \o p] = "dir" THEN cwd \o p ELSE cwd

\* Files written over whatever was at their paths.
writeFiles(fs, paths) == [q \in paths |-> "new"] @@ fs

projectFrame ==
  <<disk, deploys, network, yes, config, build, contractName, fee, nonce,
    signedPayment, confirm, txn, req, timers, promptError, buildDir, keys,
    response>>

ran(cmd) == [shell EXCEPT !.cmds = Append(@, cmd)]

\* Lines 29-60, with the existing directory overwritten instead of kept.
projectStartOverwrite ==
  /\ pc = "idle"
  /\ hist' = [hist EXCEPT !.dirsAtStart = dirs]
  /\ IF ~shell.git
       THEN /\ End("returned",
                   {"Please ensure Git is installed, then try again."})
            /\ UNCHANGED calls
       ELSE IF ~Truthy(argv.ui)
         THEN /\ pc' = "askUi"
              /\ calls' = [calls EXCEPT !.uiPrompts = @ + 1]
              /\ UNCHANGED <<outcome, log>>
         ELSE /\ pc' = "mkdir"
              /\ UNCHANGED <<outcome, log, calls>>
  /\ UNCHANGED <<dirs, shell, argv, projectFrame>>

\* Lines 29-60, up to the prompt for the UI framework.
projectStart ==
  /\ pc = "idle"
  /\ hist' = [hist EXCEPT !.dirsAtStart = dirs]
  /\ IF existsSync(dirs, argv.name)
       THEN /\ End("returned", {"Directory already exists. Not proceeding"})
            /\ UNCHANGED calls
       ELSE IF ~shell.git
         THEN /\ End("returned",
                     {"Please ensure Git is installed, then try again."})
              /\ UNCHANGED calls
         ELSE IF ~Truthy(argv.ui)
           THEN /\ pc' = "askUi"
                /\ calls' = [calls EXCEPT !.uiPrompts = @ + 1]
                /\ UNCHANGED <<outcome, log>>
           ELSE /\ pc' = "mkdir"
                /\ UNCHANGED <<outcome, log, calls>>
  /\ UNCHANGED <<dirs, shell, argv, projectFrame>>

\* Lines 46-59: the operator selects a framework.
uiSubmit(choice) ==
  /\ pc = "askUi"
  /\ argv' = [argv EXCEPT !.ui = Str(choice)]
  /\ pc' = "mkdir"
  /\ UNCHANGED <<outcome, log, calls, hist, dirs, shell, projectFrame>>

\* Lines 54-57: ctrl+c at the prompt.
uiCancel ==
  /\ pc = "askUi"
  /\ End("returned", {})
  /\ UNCHANGED <<calls, hist, dirs, shell, argv, projectFrame>>

\* Lines 62-63.
makeProjectDir ==
  /\ pc = "mkdir"
  /\ dirs' = mkdirP(dirs, argv.name)
  /\ shell' = [shell EXCEPT !.cwd = cd(dirs', shell.cwd, argv.name)]
  /\ pc' = IF argv.ui = Str("next") THEN "ghPages" ELSE "scaffold"
  /\ UNCHANGED <<outcome, log, calls, hist, argv, projectFrame>>

\* What lines 95-113 do next: the UI project gets its dependency written
\* and `npm install` when there is one.
afterScaffold(fs, ui) ==
  IF Truthy(ui) /\ ui # Str("empty")
    THEN IF (shell.cwd \o <<"ui", "package.json">>) \in DOMAIN fs
           THEN /\ dirs' = writeFiles(fs, {shell.cwd \o <<"ui", "package.json">>})
                /\ pc' = "uiInstall"
                /\ log' = log \cup {"UI: Set up project"}
                /\ UNCHANGED outcome
           ELSE /\ dirs' = fs
                /\ End("threw", {"UI: Set up project"})
    ELSE /\ dirs' = fs
         /\ pc' = "gitInit"
         /\ log' = log \cup {"UI: Set up project"}
         /\ UNCHANGED outcome

\* The generator run by spawnSync in scaffoldSvelte (286), scaffoldNext
\* (430) and scaffoldNuxt creates ui/ with its package.json when it
\* succeeds.
generated(fs, ok) ==
  IF ok
    THEN writeFiles(mkdirP(fs, shell.cwd \o <<"ui">>),
                    {shell.cwd \o <<"ui", "package.json">>})
    ELSE fs

\* Lines 73-113 for svelte, nuxt, empty and none.
scaffoldUi(ok) ==
  /\ pc = "scaffold"
  /\ CASE argv.ui = Str("svelte") ->
            /\ shell' = ran("npm create svelte@latest -y ui")
            /\ argv' = argv
            /\ afterScaffold(generated(dirs, ok), argv.ui)
       [] argv.ui = Str("nuxt") ->
            /\ shell' = ran("npx nuxi init ui")
            /\ argv' = argv
            /\ afterScaffold(generated(dirs, ok), argv.ui)
       [] argv.ui = Str("empty") ->
            /\ shell' = shell
            /\ argv' = argv
            /\ afterScaffold(mkdirP(dirs, shell.cwd \o <<"ui">>), argv.ui)
       [] argv.ui = Str("none") ->
            /\ shell' = shell
            /\ argv' = [argv EXCEPT !.ui = Bool(FALSE)]
            /\ afterScaffold(dirs, Bool(FALSE))
  /\ UNCHANGED <<calls, hist, projectFrame>>

\* scaffoldNext (400-433): its own prompt first; ctrl+c there returns from
\* scaffoldNext only, and project() goes on without ui/.
scaffoldNext(answer, ok) ==
  /\ pc = "ghPages"
  /\ calls' = [calls EXCEPT !.uiPrompts = @ + 1]
  /\ IF answer = "cancel"
       THEN /\ shell' = shell
            /\ afterScaffold(dirs, argv.ui)
       ELSE /\ shell' = ran("npx create-next-app@13.4.1 ui")
            /\ afterScaffold(generated(dirs, ok), argv.ui)
  /\ UNCHANGED <<hist, argv, projectFrame>>

\* step (229-238): the command runs; when it fails the process exits
\* with 1.
projectStep(str, cmd, ok, next) ==
  /\ shell' = ran(cmd)
  /\ IF ok
       THEN /\ pc' = next
            /\ log' = log \cup {str}
            /\ UNCHANGED outcome
       ELSE stepFails(str)

\* Lines 107-112.
uiInstall(ok) ==
  /\ pc = "uiInstall"
  /\ projectStep("UI: NPM install", "npm install --silent", ok, "gitInit")
  /\ UNCHANGED <<calls, hist, dirs, argv, projectFrame>>

\* Lines 117-123: git init, then contracts/ beside ui/.
gitInit(ok) ==
  /\ pc = "gitInit"
  /\ IF ok /\ Truthy(argv.ui)
       THEN /\ dirs' = mkdirP(dirs, shell.cwd \o <<"contracts">>)
            /\ shell' = [ran("git init -q") EXCEPT
                           !.cwd = cd(dirs', shell.cwd, <<"contracts">>)]
            /\ pc' = "fetchTemplate"
            /\ log' = log \cup {"Initialize Git repo"}
            /\ UNCHANGED outcome
       ELSE /\ projectStep("Initialize Git repo", "git init -q", ok,
                           "fetchTemplate")
            /\ UNCHANGED dirs
  /\ UNCHANGED <<calls, hist, argv, projectFrame>>

TemplateFiles == {<<"package.json">>, <<"README.md">>}

\* Line 124 with fetchProjectTemplate (183-221), then lines 131-145.
fetchTemplate(ok) ==
  /\ pc = "fetchTemplate"
  /\ IF ok
       THEN /\ dirs' = mkdirP(writeFiles(dirs, {shell.cwd \o f :
                                                  f \in TemplateFiles}),
                              shell.cwd \o <<"keys">>)
            /\ pc' = "npmInstall"
            /\ log' = log \cup {"Set up project"}
            /\ UNCHANGED outcome
       ELSE /\ End("returned", {"Set up project failed"})
            /\ UNCHANGED dirs
  /\ UNCHANGED <<calls, hist, shell, argv, projectFrame>>

\* Lines 150-153.
npmInstall(ok) ==
  /\ pc = "npmInstall"
  /\ projectStep("NPM install", "npm install --silent", ok, "npmBuild")
  /\ UNCHANGED <<calls, hist, dirs, argv, projectFrame>>

\* Lines 156-160: the build, setProjectName, back to the project root.
npmBuild(ok) ==
  /\ pc = "npmBuild"
  /\ IF ok
       THEN /\ dirs' = writeFiles(mkdirP(dirs, shell.cwd \o <<"build">>),
                                  {shell.cwd \o f : f \in TemplateFiles})
            /\ shell' = [ran("npm run build --silent") EXCEPT
                           !.cwd = IF Truthy(argv.ui) /\ @ # <<>>
                                     THEN SubSeq(@, 1, Len(@) - 1)  \* cd ..
                                     ELSE @]
            /\ pc' = "gitCommit"
            /\ log' = log \cup {"NPM build contract", "Set project name"}
            /\ UNCHANGED outcome
       ELSE /\ projectStep("NPM build contract", "npm run build --silent",
                           ok, "gitCommit")
            /\ UNCHANGED dirs
  /\ UNCHANGED <<calls, hist, argv, projectFrame>>

\* Lines 163-176.
gitCommit(ok) ==
  /\ pc = "gitCommit"
  /\ shell' = ran("git add . && git commit")
  /\ IF ok THEN End("exit0", {"Git init commit", "Success!"})
     ELSE stepFails("Git init commit")
  /\ UNCHANGED <<calls, hist, dirs, argv, projectFrame>>

\* The names given to `zk project`, the values of --ui (Constants.uiTypes,
\* or none given), and what may be there already.
UiTypes == {"next", "svelte", "nuxt", "empty", "none"}
ProjectDirs ==
  {<<>>,
   <<"a">> :> "dir",
   <<"a">> :> "file",
   (<<"a">> :> "dir") @@ (<<"a", "b">> :> "dir"),
   (<<"a">> :> "dir") @@ (<<"a", "b">> :> "file"),
   (<<"a">> :> "dir") @@ (<<"a", "package.json">> :> "file")}

ProjectInit ==
  /\ dirs \in ProjectDirs
  /\ argv \in [name : {<<"a">>, <<"a", "b">>},
               ui : {Undefined} \cup {Str(u) : u \in UiTypes}]
  /\ shell \in [git : BOOLEAN, cwd : {<<>>}, cmds : {<<>>}]
  /\ disk = NoFile
  /\ keys = {}
  /\ deploys = 0
  /\ pc = "idle"
  /\ outcome = "none"
  /\ network = <<>>
  /\ yes = FALSE
  /\ config = NoConfig
  /\ build = <<>>
  /\ contractName = Undefined
  /\ fee = Undefined
  /\ nonce = Num(0)
  /\ signedPayment = Undefined
  /\ confirm = Undefined
  /\ txn = Undefined
  /\ req = NoReq
  /\ timers = NoTimers
  /\ log = {}
  /\ promptError = ""
  /\ calls = NoCalls
  /\ hist = NoHist
  /\ buildDir = <<>>
  /\ response = NoResponse

ProjectNext ==
  \/ projectStart
  \/ \E choice \in UiTypes : uiSubmit(choice)
  \/ uiCancel
  \/ makeProjectDir
  \/ \E ok \in BOOLEAN : scaffoldUi(ok)
  \/ \E answer \in {"yes", "no", "cancel"}, ok \in BOOLEAN :
       scaffoldNext(answer, ok)
  \/ \E ok \in BOOLEAN : uiInstall(ok)
  \/ \E ok \in BOOLEAN : gitInit(ok)
  \/ \E ok \in BOOLEAN : fetchTemplate(ok)
  \/ \E ok \in BOOLEAN : npmInstall(ok)
  \/ \E ok \in BOOLEAN : npmBuild(ok)
  \/ \E ok \in BOOLEAN : gitCommit(ok)

ProjectSpec == ProjectInit /\ [][ProjectNext]_vars

(***************************************************************************)
(* Properties.                                                             *)
(***************************************************************************)
Started == deploys > 0
SUCCESS == "Success! Deploy transaction sent."
FAILED == "Failed to send transaction"

\* "yes" and "y" in every mix of upper and lower case
YesSpellings ==
  {<<a, b, c>> : a \in {"y", "Y"}, b \in {"e", "E"}, c \in {"s", "S"}}
    \cup {<<"y">>, <<"Y">>}

\* The smartContract config.json held for the alias when deploy started.
ConfiguredAtStart ==
  IF hist.diskAtStart.t = "file"
    THEN SmartContractOf(hist.diskAtStart, network)
    ELSE Undefined

\* No request was sent, nothing was signed.
NothingSent ==
  /\ calls.nonceQueries = 0
  /\ calls.submissions = 0
  /\ req = NoReq
  /\ signedPayment = Undefined

\* C1: without the auto-confirm flag, every answer to the confirmation
\* prompt other than "yes" or "y" in any letter case (the empty answer too)
\* leaves the gate Aborted with no submission sent in that invocation;
\* every spelling of "yes" and "y", "YES" among them, leaves it Confirmed.
C1_GateFollowsAnswer ==
  hist.answer # <<>> =>
    /\ ~yes
    /\ IF hist.answer[1] \in YesSpellings
         THEN hist.gate = "Confirmed"
         ELSE /\ hist.gate = "Aborted"
              /\ calls.submissions = 0
              /\ req.call # "submit"
              /\ pc = "done"
              /\ SUCCESS \notin log

C1_Witness ==
  /\ hist.answer = << <<" ", "y">> >>
  /\ hist.gate = "Aborted"
  /\ calls.confirmPrompts = 1

\* The submission returned r: an HTTP-success body with a transaction hash
\* or id under data.sendZkapp.zkapp.
HasTransaction(r) ==
  LET zkapp == OptProp(OptProp(OptProp(r, "data"), "sendZkapp"), "zkapp") IN
    /\ ~IsStr(Prop(r, "kind"), "error")
    /\ zkapp.t = "object"
    /\ (Truthy(Prop(zkapp, "hash")) \/ Truthy(Prop(zkapp, "id")))

\* C2: deploy reports success only when the submission returned an
\* HTTP-success body with a transaction hash/id under
\* data.sendZkapp.zkapp; every other outcome of the submission is reported
\* as a failure and never as a success.
C2_SuccessOnlyWithTransaction ==
  hist.submitResult # <<>> =>
    IF HasTransaction(hist.submitResult[1])
      THEN TRUE
      ELSE FAILED \in log /\ SUCCESS \notin log

\* C3: when the target alias is absent from config.json, or present with an
\* empty or missing url, deploy ends before the build, before any write of
\* config.json and before any network call.
C3_NoAliasNoWork ==
  (/\ Started
   /\ hist.diskAtStart.t = "file"
   /\ \/ network \notin DOMAIN hist.diskAtStart.networks
      \/ ~Truthy(UrlOf(hist.diskAtStart, network)))
    => /\ pc = "done"
       /\ calls.builds = 0
       /\ calls.configWrites = 0
       /\ disk = hist.diskAtStart
       /\ NothingSent

C3_Witness ==
  /\ Started
  /\ network = DV
  /\ hist.diskAtStart.t = "file"
  /\ DV \in DOMAIN hist.diskAtStart.networks
  /\ UrlOf(hist.diskAtStart, DV) = Str("")
  /\ outcome = "returned"

\* C4: with the auto-confirm flag, once the transaction is signed the gate
\* is Confirmed, no confirmation prompt was shown and the submission
\* request has been issued.
C4_AutoConfirm ==
  (yes /\ signedPayment # Undefined) =>
    /\ hist.gate = "Confirmed"
    /\ calls.confirmPrompts = 0
    /\ hist.answer = <<>>
    /\ calls.submissions = 1

C4_Witness ==
  /\ yes
  /\ pc = "sending"
  /\ req.call = "submit"
  /\ calls.confirmPrompts = 0

\* C5: a request the endpoint has not answered within 20 seconds is
\* aborted and gives an error value with kind 'error' and no status code;
\* a submission that timed out is reported to the operator as failed.
C5_TimeoutReportedAsFailure ==
  /\ (InFlight /\ req.elapsed >= TimeoutMs) =>
       timers[req.call] \in {"pending", "fired"}
  /\ (hist.submitResult # <<>> /\ timers.submit = "fired"
        /\ hist.submitHttp = <<>>) =>
       /\ IsStr(Prop(hist.submitResult[1], "kind"), "error")
       /\ Prop(hist.submitResult[1], "statusCode") = Undefined
       /\ FAILED \in log
       /\ SUCCESS \notin log

\* C6: for a response with an HTTP non-success status, whatever its body,
\* sendGraphQL returns kind 'error' with the response's statusCode and
\* statusText and the server's errors as message.
C6_HttpErrorCarriesStatus ==
  (hist.submitHttp # <<>> /\ ~ResponseOk(hist.submitHttp[1].status)) =>
    LET r == hist.submitResult[1]
        http == hist.submitHttp[1]
    IN /\ IsStr(Prop(r, "kind"), "error")
       /\ Prop(r, "statusCode") = Num(http.status)
       /\ Prop(r, "statusText") = Str(StatusText(http.status))
       /\ http.body.t = "object" => Prop(r, "message") = Prop(http.body, "errors")

\* The body of an HTTP-success answer marks the transaction as failed.
MarksFailure(body) ==
  LET zkapp == OptProp(OptProp(OptProp(body, "data"), "sendZkapp"), "zkapp") IN
    \/ Truthy(OptProp(body, "errors"))
    \/ IsStr(OptProp(zkapp, "kind"), "error")
    \/ Truthy(OptProp(zkapp, "failureReason"))

\* C7: an HTTP-success answer to the submission whose body marks the
\* transaction as failed (zkapp.kind "error", a non-empty failureReason, a
\* top-level errors field) is reported as a failure, not as a success, and
\* nothing is sent again.
C7_PayloadFailureReported ==
  (/\ hist.submitHttp # <<>>
   /\ ResponseOk(hist.submitHttp[1].status)
   /\ hist.submitHttp[1].body # NotJson
   /\ MarksFailure(hist.submitHttp[1].body))
    => /\ FAILED \in log
       /\ SUCCESS \notin log
       /\ calls.submissions = 1

\* Contract resolution of this invocation has just run: the artifact is
\* still at hand.
Resolving == pc \in {"select", "import"}

\* An earlier invocation resolved the alias to the only name of its
\* artifact, and this one has resolved its contract too.
LaterDeploy ==
  /\ hist.single # <<>>
  /\ hist.single[1].deploy < deploys
  /\ contractName # Undefined

\* What C8 says of a later deploy of the alias.
SameChoiceAgain ==
  LaterDeploy =>
    /\ contractName = hist.single[1].name
    /\ calls.selectPrompts = 0
    /\ calls.configWrites = 0

C9_ConfiguredContractWins ==
  (Started /\ Truthy(ConfiguredAtStart)) =>
    /\ \A a \in Artifacts :
         chooseSmartContract(config, a, network) = ConfiguredAtStart
    /\ calls.selectPrompts = 0
    /\ pc # "select"
    /\ contractName \in {Undefined, ConfiguredAtStart}

C9_Witness ==
  /\ pc = "import"
  /\ build = <<"A">>
  /\ ConfiguredAtStart = Str("Z")
  /\ contractName = Str("Z")
  /\ calls.selectPrompts = 0

\* C10: with two or more names in the artifact and no configured
\* smartContract, deploy passes contract resolution only on a submitted
\* selection; when the operator cancels the selection the deploy ends,
\* config.json is as it was read and nothing later has run.
C10_SelectionOrAbort ==
  (Started /\ Len(build) >= 2 /\ ~Truthy(ConfiguredAtStart)) =>
    /\ calls.selectPrompts = 1
    /\ \/ pc = "select" /\ ~hist.selected
       \/ pc = "import" /\ hist.selected /\ contractName.t = "string"
       \/ /\ pc = "done"
          /\ outcome = "threw"
          /\ ~hist.selected
          /\ disk = hist.diskAtStart
          /\ calls.configWrites = 0
          /\ NothingSent
          /\ log = {}

C10_Witness ==
  /\ Len(build) = 2
  /\ ~Truthy(ConfiguredAtStart)
  /\ pc = "done"
  /\ outcome = "threw"
  /\ calls.selectPrompts = 1

\* Non-negative nonces an account query can give, as a JSON number or as
\* a string of digits.
QueriedNonces == {Num(0), Str("0"), Str("3")}

\* C11: for every nonce n >= 0 (0 too) the account query returned for the
\* fee payer, the nonce prompt is not shown and the transaction is signed
\* with nonce n.
C11_QueriedNonceIsSigned ==
  (hist.queried # <<>> /\ hist.queried[1] \in QueriedNonces) =>
    /\ calls.noncePrompts = 0
    /\ signedPayment # Undefined => signedPayment.nonce = hist.queried[1]

\* Text that is a number: not blank, and Number(text) is not NaN.
IsNumericText(c) == trim(c) # <<>> /\ ~isNaN(c)

\* The account query has returned and gave no nonce.
QueryGaveNoNonce ==
  calls.nonceQueries = 1 /\ req.call # "nonce" /\ hist.queried = <<>>

\* C12: when the account query fails, times out or gives no nonce, deploy
\* does not end there and shows the nonce prompt; the prompt turns down
\* every blank and every non-numeric input with an error and stays open,
\* so the nonce it hands to signing is a number.
C12_PromptAcceptsOnlyNumbers ==
  /\ QueryGaveNoNonce => calls.noncePrompts = 1
  /\ (QueryGaveNoNonce /\ pc # "noncePrompt" /\ outcome # "threw") =>
       nonce.t = "text" /\ IsNumericText(nonce.c)

\* A non-negative integer, as a JSON number or as decimal digits.
IsNonNegativeInteger(v) ==
  \/ v.t = "number" /\ v.n \in Nat
  \/ v.t = "string" /\ v.s \in {"0", "3"}
  \/ v.t = "text" /\ v.c # <<>> /\ \A i \in DOMAIN v.c : v.c[i] \in Digits

\* C13: whenever deploy signs, the nonce of the fee-payer record is a
\* non-negative integer, whether the network or the prompt gave it.
C13_SignedNonceIsNatural ==
  signedPayment # Undefined => IsNonNegativeInteger(signedPayment.nonce)

\* C14: the fee of the signed transaction is the decimal fee text followed
\* by nine "0" characters, joined as text: "0.01" gives "0.01000000000",
\* "1" gives "1000000000", "0.000000001" gives "0.000000001000000000".
C14_FeeIsTextThenNineZeros ==
  signedPayment # Undefined =>
    LET f == signedPayment.fee
        n == Len(fee.c)
    IN  /\ Len(f) = n + 9
        /\ SubSeq(f, 1, n) = fee.c
        /\ \A i \in (n + 1)..(n + 9) : f[i] = "0"
        /\ fee.c = <<"0", ".", "0", "1">> =>
             f = <<"0", ".", "0", "1",
                   "0", "0", "0", "0", "0", "0", "0", "0", "0">>
        /\ fee.c = <<"1">> =>
             f = <<"1", "0", "0", "0", "0", "0", "0", "0", "0", "0">>
        /\ fee.c = <<"0", ".", "0", "0", "0", "0", "0", "0", "0", "0", "1">> =>
             f = <<"0", ".", "0", "0", "0", "0", "0", "0", "0", "0", "1",
                   "0", "0", "0", "0", "0", "0", "0", "0", "0">>

C14_Witness ==
  /\ pc = "confirm"
  /\ fee = Text(<<"0", ".", "0", "1">>)
  /\ signedPayment # Undefined
  /\ signedPayment.fee = <<"0", ".", "0", "1",
                           "0", "0", "0", "0", "0", "0", "0", "0", "0">>

\* C15: the fee deploy signs is the fee config.json keeps for the alias,
\* with the nine zeros; with a queried nonce of 3 the transaction is signed
\* with nonce 3 and the operator was asked for neither fee nor nonce.
C15_SignedFeeIsConfiguredFee ==
  signedPayment # Undefined =>
    /\ signedPayment.fee = config.networks[network].fee.c \o NINE_ZEROS
    /\ calls.feePrompts = 0
    /\ hist.queried = <<Str("3")>> =>
         signedPayment.nonce = Str("3") /\ calls.noncePrompts = 0

\* C16: the private key is read once per invocation, from the file the
\* alias's keyPath names, whatever that keyPath is.
C16_KeyReadFromKeyPath ==
  hist.keyFile # <<>> =>
    /\ calls.keyReads = 1
    /\ hist.keyFile[1] = config.networks[network].keyPath

\* The aliases of a config.json, under the key that holds them.
AliasesOf(cfg) ==
  IF cfg.t = "aliases" THEN cfg.deployAliases ELSE cfg.networks

\* C17: deploy finds the alias whether config.json keeps its aliases under
\* `networks` or under `deployAliases`, goes on to the build, and leaves
\* the aliases under the key they were read from.
C17_AliasFoundUnderEitherKey ==
  (/\ Started
   /\ hist.diskAtStart.t \in {"file", "aliases"}
   /\ network \in DOMAIN AliasesOf(hist.diskAtStart)
   /\ Truthy(AliasesOf(hist.diskAtStart)[network].url)) =>
    /\ pc = "build" \/ calls.builds = 1
    /\ disk.t = hist.diskAtStart.t

\* C18: deploy ends with exit status 0 when the deploy succeeded, and with
\* a non-zero status on every fatal and every aborted path.
C18_ExitStatusTellsOutcome ==
  pc = "done" => (exitStatus(outcome) = 0 <=> SUCCESS \in log)

\* What deploy prints for the local failures after contract resolution.
LocalFailures ==
  {"Failed to find the smart contract", "Not a named export",
   "Failed to find the zkapp private key",
   "Generate verification key failed", "Build transaction failed"}

\* C19: after a local failure past contract resolution (contract file or
\* named export not found, key file unreadable, compile or transaction
\* construction throwing) deploy has ended with the cause printed, no
\* request was sent, nothing was signed, and config.json differs from
\* what was read by at most the smartContract the resolver persisted.
C19_LocalFailureStopsDeploy ==
  log \cap LocalFailures # {} =>
    /\ pc = "done"
    /\ outcome \in {"returned", "exit1"}
    /\ NothingSent
    /\ calls.configWrites <= 1
    /\ disk = IF calls.configWrites = 0 THEN hist.diskAtStart
              ELSE setSmartContract(hist.diskAtStart, network, contractName)

C19_Witness ==
  /\ pc = "done"
  /\ "Failed to find the zkapp private key" \in log
  /\ calls.configWrites = 1
  /\ disk # hist.diskAtStart

\* C20: in one invocation the account query is issued at most once and
\* the signed transaction is sent at most once, whatever the outcome of
\* the submission; nothing is in flight once deploy has ended.
C20_AtMostOneQueryAndOneSend ==
  /\ calls.nonceQueries <= 1
  /\ calls.submissions <= 1
  /\ calls.submissions = 1 => calls.nonceQueries = 1
  /\ pc = "done" => req = NoReq

C20_Witness ==
  /\ pc = "done"
  /\ FAILED \in log
  /\ calls.nonceQueries = 1
  /\ calls.submissions = 1

\* The place of each position of deploy in the order of its steps.
StepRank ==
  [p \in {"idle", "build", "scan", "select", "import", "readKey", "compile",
          "buildTx", "feePrompt", "nonceQuery", "noncePrompt", "sign",
          "confirm", "sending", "done"} |->
     CASE p = "idle" -> 0 [] p = "build" -> 1 [] p = "scan" -> 2
       [] p = "select" -> 3 [] p = "import" -> 4 [] p = "readKey" -> 5
       [] p = "compile" -> 6 [] p = "buildTx" -> 7 [] p = "feePrompt" -> 8
       [] p = "nonceQuery" -> 9 [] p = "noncePrompt" -> 10 [] p = "sign" -> 11
       [] p = "confirm" -> 12 [] p = "sending" -> 13 [] p = "done" -> 14]

\* The account query has returned.
NonceResolved == calls.nonceQueries = 1 /\ req.call # "nonce"

\* What holds of every state of an ordered deploy.
InOrder ==
  /\ req.call = "nonce" => pc = "nonceQuery" /\ signedPayment = Undefined
  /\ req.call = "submit" => pc = "sending"
  /\ pc \in {"compile", "buildTx", "sign", "confirm"} => req = NoReq
  /\ calls.nonceQueries = 1 => calls.builds = 1 /\ calls.feePrompts = 1
  /\ signedPayment # Undefined => NonceResolved
  /\ calls.confirmPrompts = 1 => signedPayment # Undefined
  /\ calls.submissions = 1 =>
       /\ signedPayment # Undefined
       /\ hist.gate = "Confirmed"
       /\ NonceResolved \/ req.call = "submit"

\* C21: the steps of one invocation run in the order scan, resolution,
\* transaction build, nonce resolution, signing, confirmation, submission:
\* deploy only moves forward, a request is in flight only at its own step
\* and never during compilation or signing, signing comes after the
\* account query returned, submission after signing and a Confirmed gate.
C21_StrictOrder ==
  /\ []InOrder
  /\ [][pc' # pc =>
         \/ StepRank[pc'] > StepRank[pc]
         \/ pc = "done" /\ pc' = "build"]_vars

C21_Witness ==
  /\ pc = "sending"
  /\ req.call = "submit"
  /\ ~yes
  /\ hist.gate = "Confirmed"
  /\ nonce.t = "text"

\* C29: once a sendGraphQL call has completed (with a response, an HTTP
\* error or a caught transport error) its abort timer is cancelled: a
\* timer is pending only while its own call is in flight.
C29_NoTimerOutlivesItsCall ==
  \A c \in {"nonce", "submit"} : timers[c] = "pending" => req.call = c

\* C27: when the scan finds no contract name and the alias has no
\* configured smartContract, deploy does not end with an error there:
\* chooseSmartContract gives the empty name and the selection prompt
\* opens over the empty list of choices.
C27_EmptyArtifactOpensPrompt ==
  [][(/\ pc = "scan"
      /\ pc' # "scan"
      /\ build' = <<>>
      /\ ~Truthy(SmartContractOf(config, network))) =>
       /\ chooseSmartContract(config, build', network) = Str("")
       /\ pc' = "select"
       /\ contractName' = Str("")
       /\ calls'.selectPrompts = 1
       /\ outcome' = "none"
       /\ log' = log
       /\ disk' = disk]_vars

C27_Witness ==
  /\ pc = "select"
  /\ build = <<>>
  /\ contractName = Str("")
  /\ ~Truthy(ConfiguredAtStart)
  /\ calls.selectPrompts = 1

\* The text `class <name> extends SmartContract`, in any letter case of
\* its keywords.
IsSmartContractClass(d) ==
  d.kw \in {"class", "CLASS"} /\ d.base \in {"SmartContract", "smartcontract"}

\* The matches in build/: <<f, k>> is declaration k of file f.
Matches ==
  {m \in UNION {{<<f, k>> : k \in DOMAIN buildDir[f].text} :
                  f \in DOMAIN buildDir} :
     IsSmartContractClass(buildDir[m[1]].text[m[2]])}

\* The place of a match among all: files in scan order, and within a file
\* in order of appearance.
MatchPosition(m) ==
  1 + Cardinality({n \in Matches :
                     n[1] < m[1] \/ (n[1] = m[1] /\ n[2] < m[2])})

\* C26: findSmartContracts gives one entry per match of
\* "class <Name> extends SmartContract", in the order of the files and,
\* within a file, of appearance; duplicates stay, so a name declared in
\* two files is there twice and the resolver has two candidates; with no
\* match the list is empty and nothing fails.
C26_OneEntryPerMatchInOrder ==
  pc \in {"select", "import"} =>
    /\ Len(build) = Cardinality(Matches)
    /\ \A m \in Matches :
         build[MatchPosition(m)] = buildDir[m[1]].text[m[2]].name
    /\ Matches = {} => build = <<>> /\ outcome = "none" /\ log = {}
    /\ (Cardinality(Matches) >= 2 /\ ~Truthy(ConfiguredAtStart)) =>
         calls.selectPrompts = 1

C26_Witness ==
  /\ pc = "select"
  /\ Len(buildDir) = 2
  /\ build = <<"A", "A">>
  /\ calls.selectPrompts = 1

\* The files in which the scan discovered the name.
Discovering(name) ==
  {buildDir[f] : f \in {g \in DOMAIN buildDir :
     \E k \in DOMAIN buildDir[g].text :
       /\ IsSmartContractClass(buildDir[g].text[k])
       /\ buildDir[g].text[k].name = name}}

\* deploy is past the import of the contract module.
ImportDone ==
  \/ pc = "readKey"
  \/ /\ pc = "done"
     /\ log \cap {"Failed to find the smart contract", "Not a named export"}
          # {}

\* C30: the module deploy imports is a build file in which the scan
\* discovered the resolved name, wherever under build/ that file is and
\* whatever other files declare the name in another letter case.
C30_ImportsDiscoveringFile ==
  (ImportDone /\ Discovering(contractName.s) # {}) =>
    /\ pc = "readKey"
    /\ importedFile(buildDir, contractName.s) # <<>>
    /\ importedFile(buildDir, contractName.s)[1]
         \in Discovering(contractName.s)

\* C22: when the operator cancels the wizard at the name, url or fee
\* prompt, config() ends with a non-zero exit status, config.json is as it
\* was before the command and no key file was created.
C22_CancelLeavesNothing ==
  hist.cancelledAt # "" =>
    /\ pc = "done"
    /\ exitStatus(outcome) # 0
    /\ disk = hist.diskAtStart
    /\ keys = hist.keysAtStart

C22_Witness ==
  /\ hist.cancelledAt = "askFee"
  /\ pc = "done"
  /\ Truthy(response.deployAlias)
  /\ Truthy(response.url)

\* C23: run where no config.json exists, config() prints that config.json
\* was not found, ends with a non-zero exit status, shows no prompt and
\* creates neither config.json nor a key file.
C23_NoConfigEndsNonZero ==
  (pc = "done" /\ hist.diskAtStart = NoFile) =>
    /\ "config.json not found" \in log
    /\ exitStatus(outcome) # 0
    /\ response = NoResponse
    /\ hist.cancelledAt = ""
    /\ disk = NoFile
    /\ keys = {}

\* An accepted answer that is not blank and carries no space at its ends.
AcceptedTrimmed(v) == v.t = "text" /\ v.c # <<>> /\ trim(v.c) = v.c

\* C24: the wizard accepts no empty or whitespace-only name, url or fee
\* (it shows the field's 'is required' error and asks again) and no
\* negative fee; the key pair is created and the alias written only with
\* three accepted, non-blank values, stored trimmed.
C24_BlankInputsRejected ==
  /\ response.deployAlias # Undefined => AcceptedTrimmed(response.deployAlias)
  /\ response.url # Undefined => AcceptedTrimmed(response.url)
  /\ response.fee # Undefined =>
       AcceptedTrimmed(response.fee) /\ ~isNegative(response.fee.c)
  /\ (pc # "idle" /\ (keys # hist.keysAtStart \/ disk # hist.diskAtStart)) =>
       /\ AcceptedTrimmed(response.deployAlias)
       /\ AcceptedTrimmed(response.url)
       /\ AcceptedTrimmed(response.fee)

\* The aliases config.json held when config() started.
AliasesAtStart ==
  IF hist.diskAtStart.t \in {"file", "aliases"}
    THEN aliasesOf(hist.diskAtStart)
    ELSE <<>>

\* C28: the wizard accepts no name that, normalized, is the name of an
\* alias config.json holds; so once the wizard has written config.json,
\* every alias that was there is still there with the same url, keyPath,
\* fee and smartContract, and exactly one alias was added.
C28_ExistingAliasesKept ==
  /\ response.deployAlias # Undefined =>
       response.deployAlias.c \notin DOMAIN AliasesAtStart
  /\ (pc # "idle" /\ disk # hist.diskAtStart) =>
       /\ disk.t = hist.diskAtStart.t
       /\ \A a \in DOMAIN AliasesAtStart :
            /\ a \in DOMAIN aliasesOf(disk)
            /\ aliasesOf(disk)[a] = AliasesAtStart[a]
       /\ Cardinality(DOMAIN aliasesOf(disk))
            = Cardinality(DOMAIN AliasesAtStart) + 1
       /\ response.deployAlias.c \in DOMAIN aliasesOf(disk)

C28_Witness ==
  /\ pc = "done"
  /\ "Success!" \in log
  /\ DV \in DOMAIN AliasesAtStart
  /\ promptError = ""
  /\ Cardinality(DOMAIN aliasesOf(disk)) = 3

\* C25: project() called with a name that already exists prints the warning
\* and returns: no path is created, overwritten or deleted, no shell
\* command is run, the shell's directory is not changed, and no prompt is
\* opened.
ExistedAtStart == pc # "idle" /\ existsSync(hist.dirsAtStart, argv.name)
C25_ExistingDirectoryUntouched ==
  ExistedAtStart =>
    /\ pc = "done"
    /\ outcome = "returned"
    /\ "Directory already exists. Not proceeding" \in log
    /\ dirs = hist.dirsAtStart
    /\ shell.cmds = <<>>
    /\ shell.cwd = <<>>
    /\ calls.uiPrompts = 0
C25_Witness ==
  /\ ExistedAtStart
  /\ pc = "done"
  /\ dirs[argv.name] = "dir"
  /\ (argv.name \o <<"package.json">>) \in DOMAIN dirs
  /\ "Directory already exists. Not proceeding" \in log

====
